---- MODULE Spec2Model ----
(***************************************************************************)
(* The C bridge of libsignal (rust/bridge/shared): the panic-safe wrapper  *)
(* run_ffi_safe, the ownership primitives box_object, native_handle_cast   *)
(* and write_bytearray_to, and the three generated bridge functions        *)
(* (destroy, deserialize, get-byte-array), over an explicit heap and the   *)
(* caller's memory.                                                        *)
(***************************************************************************)
EXTENDS Integers, Sequences, FiniteSets, TLC

(* ------------------------------ bounds -------------------------------- *)

\* Heap capacity: addresses of objects behind handles.
MaxHandles == 2
\* Heap capacity: addresses of byte buffers handed to the caller.
MaxBufs == 1
\* Heap capacity: addresses of boundary errors.
MaxErrs == 2
\* Bytes are 0..MaxByte.
MaxByte == 1
\* Longest input the caller passes to deserialize.
MaxLen == 2
\* Length of a serialized private key: the longest input.
KeyLen == MaxLen

Null == 0
HAddr == 1..MaxHandles
BAddr == 1..MaxBufs
EAddr == 1..MaxErrs
Byte == 0..MaxByte
\* The threads of the caller, each with a handle slot, an out and an out_len
\* variable of its own; a single-threaded caller is thread 1.
Threads == {1, 2}
Cells == {1}

RECURSIVE SeqsUpTo(_)
SeqsUpTo(n) ==
    IF n = 0 THEN {<< >>}
    ELSE LET S == SeqsUpTo(n - 1)
         IN  S \cup {Append(s, b) : s \in {x \in S : Len(x) = n - 1}, b \in Byte}

Inputs == SeqsUpTo(MaxLen)

(* --------------------------- values ----------------------------------- *)

\* SignalFfiError (ffi/error.rs): the three cases the bridge constructs.
NullPointer == [kind |-> "NullPointer", info |-> ""]
Signal(e) == [kind |-> "Signal", info |-> e]
UnexpectedPanic(r) == [kind |-> "UnexpectedPanic", info |-> r]
NoError == [kind |-> "none", info |-> ""]

\* Result<T, SignalProtocolError> of a library call, or its panic.
LibOk(v) == [tag |-> "Ok", val |-> v, err |-> ""]
LibErr(e) == [tag |-> "Err", val |-> << >>, err |-> e]
LibPanic(r) == [tag |-> "Panic", val |-> << >>, err |-> r]
NoValue == [tag |-> "none", val |-> << >>, err |-> ""]

\* Result<(), SignalFfiError> of a unit of work, or its panic with payload r.
\* by names the function whose body holds the SignalFfiError:: expression.
FfiOk == [tag |-> "Ok", err |-> NoError, payload |-> "", by |-> ""]
FfiErr(e, by) == [tag |-> "Err", err |-> e, payload |-> "", by |-> by]
FfiPanic(r) == [tag |-> "Panic", err |-> NoError, payload |-> r, by |-> ""]
NoWork == [tag |-> "none", err |-> NoError, payload |-> "", by |-> ""]

\* Heap cells.
FreeCell == [live |-> FALSE, val |-> << >>]
Cell(v) == [live |-> TRUE, val |-> v]
FreeErr == [live |-> FALSE, e |-> NoError]
ErrCell(e) == [live |-> TRUE, e |-> e]

Live(heap) == {a \in DOMAIN heap : heap[a].live}
Unused(heap) == {a \in DOMAIN heap : ~heap[a].live}

(* --------------- the library behind the bridge (PrivateKey) ----------- *)

\* Decoding normalises the scalar: the low bit of the first byte is cleared.
Clamp(bytes) == [i \in 1..Len(bytes) |-> IF i = 1 THEN bytes[i] - (bytes[i] % 2) ELSE bytes[i]]

\* PrivateKey::deserialize: exactly KeyLen bytes, else a classified error.
PrivateKey_deserialize(data) ==
    IF Len(data) = KeyLen THEN LibOk(Clamp(data)) ELSE LibErr("BadKeyLength")

\* PrivateKey::serialize: the key bytes, as an owned vector.
PrivateKey_serialize(k) == k

\* The extraction expressions of bridge_get_bytearray!, by how they end.
Bodies == {"serialize", "fallible", "panics"}

Body(kind, k) ==
    CASE kind = "serialize" -> LibOk(PrivateKey_serialize(k))
      [] kind = "fallible"  -> LibErr("InvalidState")
      [] OTHER              -> LibPanic("accessor panicked")

(* --------------------------- ffi/mod.rs -------------------------------- *)

\* Box::into_raw(Box::new(v)) at the address a the allocator hands out.
BoxNew(heap, a, cell) == [heap EXCEPT ![a] = cell]

\* Mutant of run_ffi_safe: the error is kept in one static cell, not boxed anew.
run_ffi_safe_static(work, errs, ea) ==
    LET result == CASE work.tag = "Ok"  -> FfiOk
                    [] work.tag = "Err" -> work
                    [] OTHER            -> FfiErr(UnexpectedPanic(work.payload), "run_ffi_safe")
    IN  IF result.tag = "Ok"
        THEN [ret |-> Null, errs |-> errs, unwound |-> FALSE, by |-> ""]
        ELSE [ret |-> 1, errs |-> BoxNew(errs, 1, ErrCell(result.err)),
              unwound |-> FALSE, by |-> result.by]

\* Mutant of run_ffi_safe: no catch_unwind, a panic unwinds into the caller.
run_ffi_safe_nocatch(work, errs, ea) ==
    CASE work.tag = "Ok"  -> [ret |-> Null, errs |-> errs, unwound |-> FALSE, by |-> ""]
      [] work.tag = "Err" -> [ret |-> ea, errs |-> BoxNew(errs, ea, ErrCell(work.err)),
                              unwound |-> FALSE, by |-> work.by]
      [] OTHER            -> [ret |-> Null, errs |-> errs, unwound |-> TRUE, by |-> ""]

\* run_ffi_safe: catch_unwind, then null or a newly boxed error.
run_ffi_safe(work, errs, ea) ==
    LET result == CASE work.tag = "Ok"  -> FfiOk
                    [] work.tag = "Err" -> work
                    [] OTHER            -> FfiErr(UnexpectedPanic(work.payload), "run_ffi_safe")
    IN  IF result.tag = "Ok"
        THEN [ret |-> Null, errs |-> errs, unwound |-> FALSE, by |-> ""]
        ELSE [ret |-> ea, errs |-> BoxNew(errs, ea, ErrCell(result.err)),
              unwound |-> FALSE, by |-> result.by]

\* Mutant of box_object: on Err the slot is left as it was.
box_object_keep(p, obj, slot, objs, a) ==
    IF p = Null
    THEN [res |-> FfiErr(NullPointer, "box_object"), slot |-> slot, objs |-> objs]
    ELSE IF obj.tag = "Ok"
         THEN [res |-> FfiOk, slot |-> [slot EXCEPT ![p] = a],
               objs |-> BoxNew(objs, a, Cell(obj.val))]
         ELSE [res |-> FfiErr(Signal(obj.err), "box_object"), slot |-> slot,
               objs |-> objs]

\* box_object: the slot p is checked first, then written in either case.
box_object(p, obj, slot, objs, a) ==
    IF p = Null
    THEN [res |-> FfiErr(NullPointer, "box_object"), slot |-> slot, objs |-> objs]
    ELSE IF obj.tag = "Ok"
         THEN [res |-> FfiOk, slot |-> [slot EXCEPT ![p] = a],
               objs |-> BoxNew(objs, a, Cell(obj.val))]
         ELSE [res |-> FfiErr(Signal(obj.err), "box_object"), slot |-> [slot EXCEPT ![p] = Null],
               objs |-> objs]

\* native_handle_cast: a null handle is an error, any other is borrowed.
native_handle_cast(handle, objs) ==
    IF handle = Null
    THEN [res |-> FfiErr(NullPointer, "native_handle_cast"), ref |-> << >>]
    ELSE [res |-> FfiOk, ref |-> objs[handle].val]

\* Mutant of write_bytearray_to: the bytes are returned in one static buffer.
write_bytearray_to_static(out, out_len, value, outp, outlen, bufs, b) ==
    IF out = Null \/ out_len = Null
    THEN [res |-> FfiErr(NullPointer, "write_bytearray_to"), outp |-> outp,
          outlen |-> outlen, bufs |-> bufs]
    ELSE IF value.tag = "Ok"
         THEN [res |-> FfiOk,
               outlen |-> [outlen EXCEPT ![out_len] = Len(value.val)],
               outp |-> [outp EXCEPT ![out] = 1],
               bufs |-> BoxNew(bufs, 1, Cell(value.val))]
         ELSE [res |-> FfiErr(Signal(value.err), "write_bytearray_to"), outp |-> outp,
               outlen |-> outlen, bufs |-> bufs]

\* Mutant of write_bytearray_to: the length written is one short.
write_bytearray_to_short(out, out_len, value, outp, outlen, bufs, b) ==
    IF out = Null \/ out_len = Null
    THEN [res |-> FfiErr(NullPointer, "write_bytearray_to"), outp |-> outp,
          outlen |-> outlen, bufs |-> bufs]
    ELSE IF value.tag = "Ok"
         THEN [res |-> FfiOk,
               outlen |-> [outlen EXCEPT ![out_len] = Len(value.val) - 1],
               outp |-> [outp EXCEPT ![out] = b],
               bufs |-> BoxNew(bufs, b, Cell(value.val))]
         ELSE [res |-> FfiErr(Signal(value.err), "write_bytearray_to"), outp |-> outp,
               outlen |-> outlen, bufs |-> bufs]

\* Mutant of write_bytearray_to: the value is matched before the destinations
\* are checked.
write_bytearray_to_valuefirst(out, out_len, value, outp, outlen, bufs, b) ==
    IF value.tag # "Ok"
    THEN [res |-> FfiErr(Signal(value.err), "write_bytearray_to"), outp |-> outp,
          outlen |-> outlen, bufs |-> bufs]
    ELSE IF out = Null \/ out_len = Null
         THEN [res |-> FfiErr(NullPointer, "write_bytearray_to"), outp |-> outp,
               outlen |-> outlen, bufs |-> bufs]
         ELSE [res |-> FfiOk,
               outlen |-> [outlen EXCEPT ![out_len] = Len(value.val)],
               outp |-> [outp EXCEPT ![out] = b],
               bufs |-> BoxNew(bufs, b, Cell(value.val))]

\* write_bytearray_to: both destinations are checked before the value is looked at.
write_bytearray_to(out, out_len, value, outp, outlen, bufs, b) ==
    IF out = Null \/ out_len = Null
    THEN [res |-> FfiErr(NullPointer, "write_bytearray_to"), outp |-> outp,
          outlen |-> outlen, bufs |-> bufs]
    ELSE IF value.tag = "Ok"
         THEN [res |-> FfiOk,
               outlen |-> [outlen EXCEPT ![out_len] = Len(value.val)],
               outp |-> [outp EXCEPT ![out] = b],
               bufs |-> BoxNew(bufs, b, Cell(value.val))]
         ELSE [res |-> FfiErr(Signal(value.err), "write_bytearray_to"), outp |-> outp,
               outlen |-> outlen, bufs |-> bufs]

(* ------------------- the generated bridge functions ------------------- *)

\* Mutant of the destroy closure: a null handle is rejected.
destroy_closure_rejects(p, objs) ==
    IF p = Null
    THEN [res |-> FfiErr(NullPointer, "ffi_bridge_destroy"), objs |-> objs]
    ELSE [res |-> FfiOk, objs |-> [objs EXCEPT ![p] = FreeCell]]

\* The closure of signal_<name>_destroy: releases p unless it is null.
destroy_closure(p, objs) ==
    [res |-> FfiOk,
     objs |-> IF p # Null THEN [objs EXCEPT ![p] = FreeCell] ELSE objs]

\* $typ::$fn(data) as the call ends: its result, or a panic inside the library.
Routine(data, fault) ==
    IF fault THEN LibPanic("deserialize panicked") ELSE PrivateKey_deserialize(data)

\* Mutant of the deserialize closure: an empty input is rejected like null.
deserialize_closure_empty(p, data_null, data, fault, slot, objs, a) ==
    IF data_null \/ Len(data) = 0
    THEN [res |-> FfiErr(NullPointer, "ffi_bridge_deserialize"), slot |-> slot,
          objs |-> objs, invoked |-> FALSE, value |-> NoValue]
    ELSE LET value == Routine(data, fault)
         IN  IF value.tag = "Panic"
             THEN [res |-> FfiPanic(value.err), slot |-> slot, objs |-> objs,
                   invoked |-> TRUE, value |-> value]
             ELSE LET boxed == box_object(p, value, slot, objs, a)
                  IN  [res |-> boxed.res, slot |-> boxed.slot, objs |-> boxed.objs,
                       invoked |-> TRUE, value |-> value]

\* The closure of signal_<name>_deserialize.
deserialize_closure(p, data_null, data, fault, slot, objs, a) ==
    IF data_null
    THEN [res |-> FfiErr(NullPointer, "ffi_bridge_deserialize"), slot |-> slot,
          objs |-> objs, invoked |-> FALSE, value |-> NoValue]
    ELSE LET value == Routine(data, fault)
         IN  IF value.tag = "Panic"
             THEN [res |-> FfiPanic(value.err), slot |-> slot, objs |-> objs,
                   invoked |-> TRUE, value |-> value]
             ELSE LET boxed == box_object(p, value, slot, objs, a)
                  IN  [res |-> boxed.res, slot |-> boxed.slot, objs |-> boxed.objs,
                       invoked |-> TRUE, value |-> value]

\* Mutant of the accessor closure: *out_len is zeroed before anything else.
get_bytearray_closure_zeroes(obj, out, out_len, kind, objs, outp, outlen, bufs, b) ==
    LET cast == native_handle_cast(obj, objs)
        zeroed == IF out_len = Null THEN outlen ELSE [outlen EXCEPT ![out_len] = 0]
    IN  IF cast.res.tag # "Ok"
        THEN [res |-> cast.res, outp |-> outp, outlen |-> zeroed, bufs |-> bufs,
              invoked |-> FALSE, value |-> NoValue]
        ELSE LET value == Body(kind, cast.ref)
             IN  IF value.tag = "Panic"
                 THEN [res |-> FfiPanic(value.err), outp |-> outp, outlen |-> zeroed,
                       bufs |-> bufs, invoked |-> TRUE, value |-> value]
                 ELSE LET w == write_bytearray_to(out, out_len, value, outp, zeroed, bufs, b)
                      IN  [res |-> w.res, outp |-> w.outp, outlen |-> w.outlen,
                           bufs |-> w.bufs, invoked |-> TRUE, value |-> value]

\* Mutant of the accessor closure: the null handle is rejected in the closure.
get_bytearray_closure_inline(obj, out, out_len, kind, objs, outp, outlen, bufs, b) ==
    IF obj = Null
    THEN [res |-> FfiErr(NullPointer, "ffi_bridge_get_bytearray"), outp |-> outp,
          outlen |-> outlen, bufs |-> bufs, invoked |-> FALSE, value |-> NoValue]
    ELSE LET value == Body(kind, objs[obj].val)
         IN  IF value.tag = "Panic"
             THEN [res |-> FfiPanic(value.err), outp |-> outp, outlen |-> outlen,
                   bufs |-> bufs, invoked |-> TRUE, value |-> value]
             ELSE LET w == write_bytearray_to(out, out_len, value, outp, outlen, bufs, b)
                  IN  [res |-> w.res, outp |-> w.outp, outlen |-> w.outlen,
                       bufs |-> w.bufs, invoked |-> TRUE, value |-> value]

\* The closure of signal_<name> for a byte-array accessor: the handle is
\* borrowed, the expression evaluated, and only then the result written out.
get_bytearray_closure(obj, out, out_len, kind, objs, outp, outlen, bufs, b) ==
    LET cast == native_handle_cast(obj, objs)
    IN  IF cast.res.tag # "Ok"
        THEN [res |-> cast.res, outp |-> outp, outlen |-> outlen, bufs |-> bufs,
              invoked |-> FALSE, value |-> NoValue]
        ELSE LET value == Body(kind, cast.ref)
             IN  IF value.tag = "Panic"
                 THEN [res |-> FfiPanic(value.err), outp |-> outp, outlen |-> outlen,
                       bufs |-> bufs, invoked |-> TRUE, value |-> value]
                 ELSE LET w == write_bytearray_to(out, out_len, value, outp, outlen, bufs, b)
                      IN  [res |-> w.res, outp |-> w.outp, outlen |-> w.outlen,
                           bufs |-> w.bufs, invoked |-> TRUE, value |-> value]

(* ------------------- the bridge functions, whole ---------------------- *)

\* A call as the caller sees it: its arguments and its outcome.
NoCall ==
    [op |-> "none", h |-> Null, p |-> Null, out |-> Null, out_len |-> Null,
     data_null |-> FALSE, data_len |-> 0, data |-> << >>, kind |-> "",
     invoked |-> FALSE, value |-> NoValue, work |-> NoWork, ret |-> Null,
     unwound |-> FALSE, by |-> ""]

\* signal_<name>_destroy(p) on memory M; ea is where an error would be boxed.
signal_destroy(M, p, ea) ==
    LET c == destroy_closure(p, M.objs)
        r == run_ffi_safe(c.res, M.errs, ea)
    IN  [mem  |-> [M EXCEPT !.objs = c.objs, !.errs = r.errs],
         call |-> [NoCall EXCEPT !.op = "destroy", !.h = p, !.work = c.res,
                                 !.ret = r.ret, !.unwound = r.unwound, !.by = r.by]]

\* signal_<name>_deserialize(p, data, data_len) on memory M; a null data
\* pointer comes with any data_len, here Len(data).
signal_deserialize(M, p, data_null, data, fault, a, ea) ==
    LET c == deserialize_closure(p, data_null, data, fault, M.slot, M.objs, a)
        r == run_ffi_safe(c.res, M.errs, ea)
    IN  [mem  |-> [M EXCEPT !.objs = c.objs, !.slot = c.slot, !.errs = r.errs],
         call |-> [NoCall EXCEPT !.op = "deserialize", !.p = p,
                                 !.data_null = data_null, !.data_len = Len(data),
                                 !.data = IF data_null THEN << >> ELSE data,
                                 !.kind = IF fault THEN "panics" ELSE "",
                                 !.invoked = c.invoked, !.value = c.value,
                                 !.work = c.res, !.ret = r.ret,
                                 !.unwound = r.unwound, !.by = r.by]]

\* signal_<name>(obj, out, out_len) for a byte-array accessor, on memory M.
signal_get_bytearray(M, obj, out, out_len, kind, b, ea) ==
    LET c == get_bytearray_closure(obj, out, out_len, kind, M.objs, M.outp,
                                   M.outlen, M.bufs, b)
        r == run_ffi_safe(c.res, M.errs, ea)
    IN  [mem  |-> [M EXCEPT !.bufs = c.bufs, !.outp = c.outp, !.outlen = c.outlen,
                            !.errs = r.errs],
         call |-> [NoCall EXCEPT !.op = "get_bytearray", !.h = obj, !.out = out,
                                 !.out_len = out_len, !.kind = kind,
                                 !.invoked = c.invoked, !.value = c.value,
                                 !.work = c.res, !.ret = r.ret,
                                 !.unwound = r.unwound, !.by = r.by]]

(* ------------------------------ state --------------------------------- *)

VARIABLES
    objs,     \* the objects behind handles: address -> cell
    bufs,     \* the byte buffers handed to the caller: address -> cell
    errs,     \* the boundary errors handed to the caller: address -> cell
    slot,     \* the caller's handle variables
    outp,     \* the caller's buffer-pointer variables
    outlen,   \* the caller's length variables
    last,     \* the bridge call just made: arguments and outcome
    rt,       \* the round-trip scenario: where it stands, what it holds
    thread,   \* concurrent callers: each thread's call and its position in it
    mem0      \* concurrent callers: the memory their calls started from

vars == <<objs, bufs, errs, slot, outp, outlen, last, rt, thread, mem0>>

Mem ==
    [objs |-> objs, bufs |-> bufs, errs |-> errs, slot |-> slot, outp |-> outp,
     outlen |-> outlen]

\* The memory and the call record a bridge function leaves.
Commit(r) ==
    /\ objs' = r.mem.objs
    /\ bufs' = r.mem.bufs
    /\ errs' = r.mem.errs
    /\ slot' = r.mem.slot
    /\ outp' = r.mem.outp
    /\ outlen' = r.mem.outlen
    /\ last' = r.call

EmptyMem(H, B, E, C) ==
    [objs |-> [a \in H |-> FreeCell], bufs |-> [a \in B |-> FreeCell],
     errs |-> [a \in E |-> FreeErr], slot |-> [c \in C |-> Null],
     outp |-> [c \in C |-> Null], outlen |-> [c \in C |-> 0]]

\* The caller's memory and the heap start as M.
StartFrom(M) ==
    /\ objs = M.objs
    /\ bufs = M.bufs
    /\ errs = M.errs
    /\ slot = M.slot
    /\ outp = M.outp
    /\ outlen = M.outlen

NoScenario == [pc |-> "off", h |-> Null, B |-> Null, len |-> 0, bytes |-> << >>]

Init ==
    /\ StartFrom(EmptyMem(HAddr, BAddr, EAddr, Cells))
    /\ last = NoCall
    /\ rt = NoScenario
    /\ thread = [t \in Threads |-> [pc |-> "off", call |-> NoCall]]
    /\ mem0 = EmptyMem(HAddr, BAddr, EAddr, Cells)

\* What the allocator may hand out; allocation is capped at the heap's capacity.
AllocChoice(heap) == IF Unused(heap) = {} THEN {Null} ELSE Unused(heap)

\* signal_<name>_destroy(p), on null or a live handle.
ffi_bridge_destroy ==
    /\ \E p \in {Null} \cup Live(objs), ea \in AllocChoice(errs) :
          Commit(signal_destroy(Mem, p, ea))
    /\ UNCHANGED <<rt, thread, mem0>>

\* signal_<name>_deserialize(p, data, data_len).
ffi_bridge_deserialize ==
    /\ \E p \in {Null} \cup Cells, data_null \in BOOLEAN, data \in Inputs,
          fault \in BOOLEAN, a \in Unused(objs), ea \in Unused(errs) :
          /\ data_null => ~fault
          /\ Commit(signal_deserialize(Mem, p, data_null, data, fault, a, ea))
    /\ UNCHANGED <<rt, thread, mem0>>

\* signal_<name>(obj, out, out_len) for a byte-array accessor.
ffi_bridge_get_bytearray ==
    /\ \E obj \in {Null} \cup Live(objs), out \in {Null} \cup Cells,
          out_len \in {Null} \cup Cells, kind \in Bodies,
          b \in Unused(bufs), ea \in Unused(errs) :
          Commit(signal_get_bytearray(Mem, obj, out, out_len, kind, b, ea))
    /\ UNCHANGED <<rt, thread, mem0>>

\* signal_error_free(err): the caller releases an error it was handed.
signal_error_free ==
    \E e \in Live(errs) :
        /\ errs' = [errs EXCEPT ![e] = FreeErr]
        /\ last' = [NoCall EXCEPT !.op = "error_free"]
        /\ UNCHANGED <<objs, bufs, slot, outp, outlen, rt, thread, mem0>>

\* signal_free_buffer(buf, len): the caller releases a buffer it was handed.
signal_free_buffer ==
    \E b \in Live(bufs) :
        /\ bufs' = [bufs EXCEPT ![b] = FreeCell]
        /\ last' = [NoCall EXCEPT !.op = "free_buffer"]
        /\ UNCHANGED <<objs, errs, slot, outp, outlen, rt, thread, mem0>>

Next ==
    \/ ffi_bridge_destroy
    \/ ffi_bridge_deserialize
    \/ ffi_bridge_get_bytearray
    \/ signal_error_free
    \/ signal_free_buffer

Spec == Init /\ [][Next]_vars

(* ---------------- the round trip through the handle lifecycle --------- *)

\* The scenario keeps the first buffer while it takes the second.
ScenarioBufs == 1..(MaxBufs + 1)

\* The scenario starts with any handles the program may hold already.
InitScenario ==
    /\ \E o \in [HAddr -> {FreeCell} \cup
                          {Cell(PrivateKey_deserialize(d).val) :
                              d \in {x \in Inputs : Len(x) = KeyLen}}] :
          /\ Unused(o) # {}
          /\ StartFrom([EmptyMem(HAddr, ScenarioBufs, EAddr, Cells) EXCEPT !.objs = o])
    /\ last = NoCall
    /\ rt = [NoScenario EXCEPT !.pc = "construct"]
    /\ thread = [t \in Threads |-> [pc |-> "off", call |-> NoCall]]
    /\ mem0 = EmptyMem(HAddr, BAddr, EAddr, Cells)

\* A key is constructed from caller bytes into the caller's slot.
rt_construct ==
    /\ UNCHANGED <<thread, mem0>>
    /\ rt.pc = "construct"
    /\ \E data \in Inputs, a \in Unused(objs), ea \in Unused(errs) :
          LET r == signal_deserialize(Mem, 1, FALSE, data, FALSE, a, ea)
          IN  /\ Commit(r)
              /\ rt' = IF r.call.ret = Null
                       THEN [rt EXCEPT !.pc = "serialize", !.h = r.mem.slot[1]]
                       ELSE [rt EXCEPT !.pc = "failed"]

\* The handle h is serialized: the caller keeps the buffer B and its length.
rt_serialize ==
    /\ UNCHANGED <<thread, mem0>>
    /\ rt.pc = "serialize"
    /\ \E b \in Unused(bufs), ea \in Unused(errs) :
          LET r == signal_get_bytearray(Mem, rt.h, 1, 1, "serialize", b, ea)
          IN  /\ Commit(r)
              /\ rt' = IF r.call.ret = Null
                       THEN [rt EXCEPT !.pc = "destroy", !.B = r.mem.outp[1],
                                       !.len = r.mem.outlen[1],
                                       !.bytes = r.mem.bufs[r.mem.outp[1]].val]
                       ELSE [rt EXCEPT !.pc = "failed"]

\* The handle h is destroyed.
rt_destroy ==
    /\ UNCHANGED <<thread, mem0>>
    /\ rt.pc = "destroy"
    /\ \E ea \in Unused(errs) :
          LET r == signal_destroy(Mem, rt.h, ea)
          IN  /\ Commit(r)
              /\ rt' = [rt EXCEPT !.pc = IF r.call.ret = Null THEN "deserialize"
                                         ELSE "failed"]

\* The len bytes at B are deserialized into the caller's slot.
rt_deserialize ==
    /\ UNCHANGED <<thread, mem0>>
    /\ rt.pc = "deserialize"
    /\ bufs[rt.B].live /\ rt.len <= Len(bufs[rt.B].val)
    /\ \E a \in Unused(objs), ea \in Unused(errs) :
          LET data == SubSeq(bufs[rt.B].val, 1, rt.len)
              r == signal_deserialize(Mem, 1, FALSE, data, FALSE, a, ea)
          IN  /\ Commit(r)
              /\ rt' = [rt EXCEPT !.pc = IF r.call.ret = Null THEN "reserialize"
                                         ELSE "failed"]

\* The new handle is serialized again.
rt_reserialize ==
    /\ UNCHANGED <<thread, mem0>>
    /\ rt.pc = "reserialize"
    /\ \E b \in Unused(bufs), ea \in Unused(errs) :
          LET r == signal_get_bytearray(Mem, slot[1], 1, 1, "serialize", b, ea)
          IN  /\ Commit(r)
              /\ rt' = [rt EXCEPT !.pc = IF r.call.ret = Null THEN "done"
                                         ELSE "failed"]

NextScenario ==
    \/ rt_construct
    \/ rt_serialize
    \/ rt_destroy
    \/ rt_deserialize
    \/ rt_reserialize

SpecRoundTrip == InitScenario /\ [][NextScenario]_vars

(* ------------------- bridge calls from several threads ---------------- *)

\* Every thread may construct a handle and take a buffer while the others do.
ThreadObjs == 1..(MaxHandles + 2)
ThreadBufs == 1..(MaxBufs + 1)
Keys == {PrivateKey_deserialize(d).val : d \in {x \in Inputs : Len(x) = KeyLen}}

\* The calls thread t may make: on its own handle (at address t) or null, into
\* its own slot and out-parameters or null.
ThreadCalls(t) ==
    {[NoCall EXCEPT !.op = "destroy", !.h = h] : h \in {Null, t}}
    \cup {[NoCall EXCEPT !.op = "deserialize", !.p = p, !.data_null = TRUE,
                         !.data_len = n] : p \in {Null, t}, n \in {0, MaxLen}}
    \cup {[NoCall EXCEPT !.op = "deserialize", !.p = p, !.data_len = Len(d),
                         !.data = d, !.kind = k] :
             p \in {Null, t}, d \in Inputs, k \in {"", "panics"}}
    \cup {[NoCall EXCEPT !.op = "get_bytearray", !.h = h, !.out = o,
                         !.out_len = l, !.kind = k] :
             h \in {Null, t}, o \in {Null, t}, l \in {Null, t}, k \in Bodies}

\* Each thread holds one live handle and is about to make one call.
InitThreads ==
    /\ \E k \in [Threads -> Keys] :
          mem0 = [EmptyMem(ThreadObjs, ThreadBufs, EAddr, Threads) EXCEPT
                     !.objs = [a \in ThreadObjs |->
                                  IF a \in Threads THEN Cell(k[a]) ELSE FreeCell]]
    /\ StartFrom(mem0)
    /\ \E c \in [Threads -> UNION {ThreadCalls(t) : t \in Threads}] :
          /\ \A t \in Threads : c[t] \in ThreadCalls(t)
          /\ thread = [t \in Threads |-> [pc |-> c[t].op, call |-> c[t]]]
    /\ last = NoCall
    /\ rt = NoScenario

\* Thread t moves to pc with its call record changed to c.
Goto(t, pc, c) == thread' = [thread EXCEPT ![t] = [pc |-> pc, call |-> c]]

\* The closure of destroy, in thread t.
t_destroy(t) ==
    LET c == thread[t].call
        d == destroy_closure(c.h, objs)
    IN  /\ thread[t].pc = "destroy"
        /\ objs' = d.objs
        /\ Goto(t, "return", [c EXCEPT !.work = d.res])
        /\ UNCHANGED <<bufs, errs, slot, outp, outlen, last, rt, mem0>>

\* The closure of deserialize up to box_object: the null check and the routine.
t_deserialize(t) ==
    LET c == thread[t].call
        value == Routine(c.data, c.kind = "panics")
    IN  /\ thread[t].pc = "deserialize"
        /\ IF c.data_null
           THEN Goto(t, "return",
                     [c EXCEPT !.work = FfiErr(NullPointer, "ffi_bridge_deserialize")])
           ELSE IF value.tag = "Panic"
                THEN Goto(t, "return", [c EXCEPT !.invoked = TRUE, !.value = value,
                                                 !.work = FfiPanic(value.err)])
                ELSE Goto(t, "box", [c EXCEPT !.invoked = TRUE, !.value = value])
        /\ UNCHANGED <<objs, bufs, errs, slot, outp, outlen, last, rt, mem0>>

\* box_object, in thread t.
t_box(t) ==
    LET c == thread[t].call
    IN  /\ thread[t].pc = "box"
        /\ \E a \in Unused(objs) :
              LET r == box_object(c.p, c.value, slot, objs, a)
              IN  /\ objs' = r.objs
                  /\ slot' = r.slot
                  /\ Goto(t, "return", [c EXCEPT !.work = r.res])
        /\ UNCHANGED <<bufs, errs, outp, outlen, last, rt, mem0>>

\* native_handle_cast, in thread t.
t_cast(t) ==
    LET c == thread[t].call
        r == native_handle_cast(c.h, objs)
    IN  /\ thread[t].pc = "get_bytearray"
        /\ IF r.res.tag = "Ok"
           THEN Goto(t, "body", c)
           ELSE Goto(t, "return", [c EXCEPT !.work = r.res])
        /\ UNCHANGED <<objs, bufs, errs, slot, outp, outlen, last, rt, mem0>>

\* The extraction expression, evaluated through the borrowed reference.
t_body(t) ==
    LET c == thread[t].call
        value == Body(c.kind, native_handle_cast(c.h, objs).ref)
    IN  /\ thread[t].pc = "body"
        /\ IF value.tag = "Panic"
           THEN Goto(t, "return", [c EXCEPT !.invoked = TRUE, !.value = value,
                                            !.work = FfiPanic(value.err)])
           ELSE Goto(t, "write", [c EXCEPT !.invoked = TRUE, !.value = value])
        /\ UNCHANGED <<objs, bufs, errs, slot, outp, outlen, last, rt, mem0>>

\* write_bytearray_to, in thread t.
t_write(t) ==
    LET c == thread[t].call
    IN  /\ thread[t].pc = "write"
        /\ \E b \in Unused(bufs) :
              LET w == write_bytearray_to(c.out, c.out_len, c.value, outp, outlen, bufs, b)
              IN  /\ bufs' = w.bufs
                  /\ outp' = w.outp
                  /\ outlen' = w.outlen
                  /\ Goto(t, "return", [c EXCEPT !.work = w.res])
        /\ UNCHANGED <<objs, errs, slot, last, rt, mem0>>

\* run_ffi_safe hands thread t's result to its caller.
t_return(t) ==
    LET c == thread[t].call
    IN  /\ thread[t].pc = "return"
        /\ \E ea \in Unused(errs) :
              LET r == run_ffi_safe(c.work, errs, ea)
              IN  /\ errs' = r.errs
                  /\ Goto(t, "done", [c EXCEPT !.ret = r.ret, !.unwound = r.unwound,
                                               !.by = r.by])
        /\ UNCHANGED <<objs, bufs, slot, outp, outlen, last, rt, mem0>>

NextThreads ==
    \E t \in Threads :
        \/ t_destroy(t)
        \/ t_deserialize(t)
        \/ t_box(t)
        \/ t_cast(t)
        \/ t_body(t)
        \/ t_write(t)
        \/ t_return(t)

SpecThreads == InitThreads /\ [][NextThreads]_vars

\* The call c made whole on memory M, at addresses of the allocator's choice.
Whole(M, c) ==
    LET a == CHOOSE x \in Unused(M.objs) : TRUE
        b == CHOOSE x \in Unused(M.bufs) : TRUE
        ea == CHOOSE x \in Unused(M.errs) : TRUE
    IN  CASE c.op = "destroy" -> signal_destroy(M, c.h, ea)
          [] c.op = "deserialize" ->
                signal_deserialize(M, c.p, c.data_null, c.data, c.kind = "panics", a, ea)
          [] OTHER -> signal_get_bytearray(M, c.h, c.out, c.out_len, c.kind, b, ea)

\* The calls of threads t and u made one after the other from mem0: the final
\* memory and what each call returned.
OneAfterTheOther(t, u) ==
    LET first == Whole(mem0, thread[t].call)
        second == Whole(first.mem, thread[u].call)
    IN  [mem |-> second.mem,
         ret |-> [x \in {t, u} |-> IF x = t THEN first.call.ret ELSE second.call.ret]]

\* What is at address a of a heap, null and freed addresses alike.
At(heap, a, none) == IF a = Null THEN none ELSE heap[a]

\* What thread t's call left its caller in memory M, returning ret: the error,
\* the handle's object unless the call released it (the address may then be
\* handed out again), the contents of its slot and of its out-parameters.
Outcome(t, M, ret) ==
    [error  |-> At(M.errs, ret, FreeErr),
     handle |-> IF thread[t].call.op = "destroy" /\ thread[t].call.h # Null
                THEN FreeCell ELSE M.objs[t],
     slot   |-> [null |-> M.slot[t] = Null, obj |-> At(M.objs, M.slot[t], FreeCell)],
     out    |-> [null |-> M.outp[t] = Null, buf |-> At(M.bufs, M.outp[t], FreeCell)],
     len    |-> M.outlen[t]]

\* The objects live in memory M, by value.
LiveObjects(M) == {<<v, Cardinality({a \in Live(M.objs) : M.objs[a].val = v})>> :
                      v \in {M.objs[a].val : a \in Live(M.objs)}}

(* ------------------------------ claims -------------------------------- *)

BridgeOps == {"destroy", "deserialize", "get_bytearray"}

\* The error the call just made returned, NoError for a null return.
Returned == IF last.ret = Null THEN NoError ELSE errs[last.ret].e

\* The step allocated exactly the error cell it returned, or none.
ErrsFrame ==
    \A e \in EAddr : e # last'.ret => errs'[e] = errs[e]

\* C1: run_ffi_safe sorts every unit of work into one of three cases: Ok gives a
\* null return and no allocation; Err(e) gives a non-null, newly allocated error
\* holding exactly e; a panic gives a non-null, newly allocated UnexpectedPanic
\* holding the payload. The panic never unwinds into the caller.
C1_Classified ==
    [][last'.op \in BridgeOps =>
        /\ last'.work.tag \in {"Ok", "Err", "Panic"}
        /\ ~last'.unwound
        /\ ErrsFrame
        /\ last'.work.tag = "Ok" => last'.ret = Null /\ errs' = errs
        /\ last'.work.tag = "Err" =>
              /\ last'.ret # Null
              /\ ~errs[last'.ret].live
              /\ errs'[last'.ret] = ErrCell(last'.work.err)
        /\ last'.work.tag = "Panic" =>
              /\ last'.ret # Null
              /\ ~errs[last'.ret].live
              /\ errs'[last'.ret] = ErrCell(UnexpectedPanic(last'.work.payload))
        /\ last'.ret # Null => last'.work.tag # "Ok"]_vars

\* C1 witness: an accessor panicked while another error was still outstanding,
\* and the caller holds a fresh UnexpectedPanic error.
C1_Witness ==
    /\ last.op = "get_bytearray"
    /\ last.work.tag = "Panic"
    /\ last.ret # Null
    /\ Returned = UnexpectedPanic("accessor panicked")
    /\ Cardinality(Live(errs)) = 2

\* A serialize of handle h into the caller's variables, made on memory M.
Serialized(M, h, b, ea) == signal_get_bytearray(M, h, 1, 1, "serialize", b, ea)

\* C2: a call whose internal work panics returns a non-null UnexpectedPanic error
\* and changes nothing else: every handle, buffer, caller variable and earlier
\* error is as it was. A call made next on any live handle does what it would
\* have done without the faulting call: a serialize returns null and the same
\* bytes, a destroy returns null and releases the same handle.
C2_FaultContained ==
    [][last'.work.tag = "Panic" =>
        /\ ~last'.unwound
        /\ last'.ret # Null
        /\ errs'[last'.ret].live
        /\ errs'[last'.ret].e.kind = "UnexpectedPanic"
        /\ ErrsFrame
        /\ UNCHANGED <<objs, bufs, slot, outp, outlen>>
        /\ \A h \in Live(objs), b \in Unused(bufs), ea \in Unused(errs') :
              /\ h \in Live(objs')
              /\ Serialized(Mem', h, b, ea).call = Serialized(Mem, h, b, ea).call
              /\ Serialized(Mem', h, b, ea).call.ret = Null
              /\ Serialized(Mem', h, b, ea).mem.bufs[b] = Cell(objs[h].val)
              /\ signal_destroy(Mem', h, ea).call = signal_destroy(Mem, h, ea).call
              /\ signal_destroy(Mem', h, ea).call.ret = Null
              /\ signal_destroy(Mem', h, ea).mem.objs = [objs EXCEPT ![h] = FreeCell]]_vars

\* C2 witness: deserialize panicked while a handle was live and room was left
\* for the next call's buffer and error.
C2_Witness ==
    /\ last.op = "deserialize"
    /\ last.work.tag = "Panic"
    /\ Returned.kind = "UnexpectedPanic"
    /\ slot[1] \in Live(objs)
    /\ Unused(bufs) # {}
    /\ Unused(errs) # {}

\* C3: destroy returns null for null and for every live handle; on null it
\* changes nothing, on a live handle it releases that allocation and no other.
C3_DestroySucceeds ==
    [][last'.op = "destroy" =>
        /\ last'.ret = Null
        /\ objs' = IF last'.h = Null THEN objs
                   ELSE [objs EXCEPT ![last'.h] = FreeCell]
        /\ UNCHANGED <<bufs, errs, slot, outp, outlen>>]_vars

\* C3 witness: a live handle was destroyed and another handle is still live.
C3_Witness ==
    /\ last.op = "destroy"
    /\ last.h # Null
    /\ ~objs[last.h].live
    /\ Live(objs) # {}

\* C3 witness, null case: destroy(null) returned null with handles live.
C3_WitnessNull ==
    /\ last.op = "destroy"
    /\ last.h = Null
    /\ last.ret = Null
    /\ Live(objs) # {}

C4_WitnessEmpty ==
    /\ last.op = "deserialize"
    /\ ~last.data_null
    /\ last.data_len = 0
    /\ last.p # Null
    /\ last.invoked
    /\ Returned = Signal("BadKeyLength")

\* box_object ran in the call just made: deserialize reached it.
Boxed == last.op = "deserialize" /\ last.invoked /\ last.value.tag # "Panic"

\* C5: box_object leaves one of three states: (1) p null: NullPointer, nothing
\* allocated; (2) Ok: a fresh handle to the object in the slot, success;
\* (3) Err(e): null in the slot, Signal(e). With a slot, it holds a non-null
\* handle afterwards exactly when the call succeeded.
C5_BoxObject ==
    [][Boxed' =>
        /\ last'.p = Null =>
              /\ last'.ret # Null
              /\ errs'[last'.ret].e = NullPointer
              /\ UNCHANGED <<slot, objs>>
        /\ (last'.p # Null /\ last'.value.tag = "Ok") =>
              /\ last'.ret = Null
              /\ slot'[last'.p] # Null
              /\ ~objs[slot'[last'.p]].live
              /\ objs' = [objs EXCEPT ![slot'[last'.p]] = Cell(last'.value.val)]
        /\ (last'.p # Null /\ last'.value.tag = "Err") =>
              /\ last'.ret # Null
              /\ errs'[last'.ret].e = Signal(last'.value.err)
              /\ slot'[last'.p] = Null
              /\ objs' = objs
        /\ last'.p # Null => ((slot'[last'.p] # Null) <=> (last'.ret = Null))
        /\ \A c \in Cells : c # last'.p => slot'[c] = slot[c]]_vars

\* C5 witness: a construction error took the slot from a live handle to null.
C5_Witness ==
    /\ Boxed
    /\ last.p # Null
    /\ last.value.tag = "Err"
    /\ slot[last.p] = Null
    /\ Live(objs) # {}
    /\ Returned = Signal("BadKeyLength")

\* C5 witness, success: the slot holds a handle to the decoded object.
C5_WitnessOk ==
    /\ Boxed
    /\ last.p # Null
    /\ last.ret = Null
    /\ slot[last.p] # Null
    /\ objs[slot[last.p]] = Cell(last.value.val)

\* C6: a null handle gives NullPointer whatever out and out_len are, without
\* evaluating the expression or writing *out or *out_len; the out-parameters
\* change only on calls that return null.
C6_NullHandle ==
    [][last'.op = "get_bytearray" =>
        /\ last'.h = Null =>
              /\ last'.ret # Null
              /\ errs'[last'.ret].e = NullPointer
              /\ ~last'.invoked
              /\ UNCHANGED <<outp, outlen, bufs>>
        /\ last'.ret # Null => UNCHANGED <<outp, outlen, bufs>>]_vars

\* C6 witness: a null handle with both out-parameters non-null, after an
\* earlier call had filled them.
C6_Witness ==
    /\ last.op = "get_bytearray"
    /\ last.h = Null
    /\ last.out # Null /\ last.out_len # Null
    /\ outp[last.out] # Null
    /\ Returned = NullPointer

\* C7 as claimed: a live handle with out or out_len null gives NullPointer and
\* writes neither out-parameter, whatever the expression does.
C7_Original ==
    [][(/\ last'.op = "get_bytearray"
        /\ last'.h # Null
        /\ (last'.out = Null \/ last'.out_len = Null)) =>
        /\ last'.ret # Null
        /\ errs'[last'.ret].e = NullPointer
        /\ UNCHANGED <<outp, outlen, bufs>>]_vars

\* C7 amended: NullPointer when the expression returns bytes or a library
\* error; when it panics the call returns UnexpectedPanic, as the expression
\* is evaluated before the destinations are checked. Nothing is written in
\* any of the three cases.
C7_NullDestination ==
    [][(/\ last'.op = "get_bytearray"
        /\ last'.h # Null
        /\ (last'.out = Null \/ last'.out_len = Null)) =>
        /\ last'.invoked
        /\ last'.ret # Null
        /\ last'.value.tag \in {"Ok", "Err"} => errs'[last'.ret].e = NullPointer
        /\ last'.value.tag = "Panic" =>
              errs'[last'.ret].e = UnexpectedPanic(last'.value.err)
        /\ UNCHANGED <<outp, outlen, bufs>>]_vars

\* C7 witness: live handle, out non-null, out_len null, the expression
\* returned bytes: NullPointer.
C7_Witness ==
    /\ last.op = "get_bytearray"
    /\ last.h \in Live(objs)
    /\ last.out # Null /\ last.out_len = Null
    /\ last.value.tag = "Ok"
    /\ Returned = NullPointer

\* C7 witness, fault: the same call with a panicking expression.
C7_WitnessPanic ==
    /\ last.op = "get_bytearray"
    /\ last.h \in Live(objs)
    /\ last.out # Null /\ last.out_len = Null
    /\ last.value.tag = "Panic"
    /\ Returned.kind = "UnexpectedPanic"

Primitives == {"run_ffi_safe", "box_object", "native_handle_cast", "write_bytearray_to"}

C9_Interleaved ==
    /\ \A t \in Threads : thread[t].pc = "done" =>
          \A u \in Threads \ {t} :
              /\ Outcome(t, Mem, thread[t].call.ret)
                    = Outcome(t, OneAfterTheOther(t, u).mem, OneAfterTheOther(t, u).ret[t])
              /\ Outcome(t, Mem, thread[t].call.ret)
                    = Outcome(t, OneAfterTheOther(u, t).mem, OneAfterTheOther(u, t).ret[t])
    /\ (\A t \in Threads : thread[t].pc = "done") =>
          \A t \in Threads : \A u \in Threads \ {t} :
              LiveObjects(Mem) = LiveObjects(OneAfterTheOther(t, u).mem)

\* C9 witness: one thread destroyed its handle while the other serialized its
\* own; both returned null and the buffer holds the other's key.
C9_Witness ==
    /\ \A t \in Threads : thread[t].pc = "done" /\ thread[t].call.ret = Null
    /\ thread[1].call.op = "destroy" /\ thread[1].call.h = 1
    /\ thread[2].call.op = "get_bytearray"
    /\ ~objs[1].live
    /\ bufs[outp[2]] = Cell(objs[2].val)

\* C9 witness, errors: both threads failed, each holds an error of its own.
C9_WitnessErrors ==
    /\ \A t \in Threads : thread[t].pc = "done" /\ thread[t].call.ret # Null
    /\ thread[1].call.ret # thread[2].call.ret
    /\ errs[thread[1].call.ret].e # errs[thread[2].call.ret].e

====
